---- MODULE Spec2Model ----
(***************************************************************************)
(* Student health monitoring front end (script.js): the DiseasePredictor   *)
(* rule-based scorer, the symptom list handlers, the form submission and   *)
(* the training log.                                                       *)
(*                                                                         *)
(* Numbers: JavaScript computes confidences as IEEE doubles; the model     *)
(* computes the same expressions as exact fractions [num, den] in lowest   *)
(* terms.  Within the input sets below no two scores that differ as        *)
(* fractions compare equal as doubles or vice versa, and no score equals   *)
(* the 0.3 threshold.                                                      *)
(* Arrays are JavaScript objects: a variable or a record field holds a     *)
(* reference (an index into heap), never the array's contents.             *)
(***************************************************************************)
EXTENDS Integers, Sequences, FiniteSets, TLC

VARIABLES symptomArray, heap, trainingData, studentId, listDiv, healthTable,
          clicked, callInput, callResult

vars == <<symptomArray, heap, trainingData, studentId, listDiv, healthTable,
          clicked, callInput, callResult>>

-----------------------------------------------------------------------------
(* Bounds *)

\* longest symptom list the user builds before submitting
MaxSymptoms == 2
\* most accepted submissions (entries of the training log)
MaxLog == 2
\* longest input list enumerated in full for a direct predictDisease call
MaxLen == 3
\* length of the two-token inputs with repetitions
LongLen == 6

-----------------------------------------------------------------------------
(* Fractions *)

RECURSIVE Gcd(_, _)
Gcd(a, b) == IF b = 0 THEN a ELSE Gcd(b, a % b)

Frac(n, d) == LET g == Gcd(n, d) IN [num |-> n \div g, den |-> d \div g]

FMul(x, y) == Frac(x.num * y.num, x.den * y.den)

FLess(x, y) == x.num * y.den < y.num * x.den

FLeq(x, y) == x.num * y.den <= y.num * x.den

Zero == Frac(0, 1)

One == Frac(1, 1)

\* the threshold 0.3 of the partial-match pass
Threshold == Frac(3, 10)

\* the factor 0.7 applied to partial-match scores
PartialFactor == Frac(7, 10)

MathMin(x, y) == IF FLess(y, x) THEN y ELSE x

MathMax(a, b) == IF a > b THEN a ELSE b

-----------------------------------------------------------------------------
(* Strings and arrays *)

\* String.prototype.includes: t occurs in s as a contiguous substring
Includes(s, t) ==
    \E i \in 1..(Len(s) - Len(t) + 1) : SubSeq(s, i, i + Len(t) - 1) = t

\* s.replace(/_/g, ' ')
RECURSIVE ReplaceUnderscores(_)
ReplaceUnderscores(s) ==
    IF Len(s) = 0 THEN ""
    ELSE LET c == SubSeq(s, 1, 1)
         IN (IF c = "_" THEN " " ELSE c) \o ReplaceUnderscores(SubSeq(s, 2, Len(s)))

\* String.prototype.trim for the blank character ' '
RECURSIVE Trim(_)
Trim(s) ==
    IF Len(s) = 0 THEN ""
    ELSE IF SubSeq(s, 1, 1) = " " THEN Trim(SubSeq(s, 2, Len(s)))
    ELSE IF SubSeq(s, Len(s), Len(s)) = " " THEN Trim(SubSeq(s, 1, Len(s) - 1))
    ELSE s

Range(seq) == {seq[i] : i \in 1..Len(seq)}

\* Array.prototype.includes
ArrayIncludes(arr, x) == \E i \in 1..Len(arr) : arr[i] = x

\* Array.prototype.filter(s => s !== x)
RECURSIVE FilterNotEqual(_, _)
FilterNotEqual(arr, x) ==
    IF arr = <<>> THEN <<>>
    ELSE (IF Head(arr) # x THEN <<Head(arr)>> ELSE <<>>)
         \o FilterNotEqual(Tail(arr), x)

-----------------------------------------------------------------------------
(* DiseasePredictor *)

\* this.diseaseSymptoms, in the order Object.entries enumerates it
diseaseSymptoms ==
    << [disease |-> "Common Cold",
        symptoms |-> <<"runny_nose", "cough", "sore_throat", "fatigue">>,
        weight |-> Frac(80, 100)],
       [disease |-> "Flu",
        symptoms |-> <<"fever", "cough", "body_ache", "fatigue", "headache">>,
        weight |-> Frac(90, 100)],
       [disease |-> "Stomach Flu",
        symptoms |-> <<"nausea", "vomiting", "diarrhea", "fever", "loss_of_appetite">>,
        weight |-> Frac(85, 100)],
       [disease |-> "Migraine",
        symptoms |-> <<"headache", "nausea", "dizziness">>,
        weight |-> Frac(75, 100)],
       [disease |-> "Tonsillitis",
        symptoms |-> <<"sore_throat", "fever", "headache", "loss_of_appetite">>,
        weight |-> Frac(80, 100)],
       [disease |-> "Chickenpox",
        symptoms |-> <<"rash", "fever", "fatigue", "loss_of_appetite">>,
        weight |-> Frac(90, 100)],
       [disease |-> "Pneumonia",
        symptoms |-> <<"cough", "fever", "shortness_of_breath", "chest_pain", "fatigue">>,
        weight |-> Frac(95, 100)],
       [disease |-> "Allergic Reaction",
        symptoms |-> <<"rash", "runny_nose", "shortness_of_breath">>,
        weight |-> Frac(70, 100)] >>

Healthy == [disease |-> "Healthy", confidence |-> One]

InitialBestMatchHealthy == Healthy

\* let bestMatch = { disease: 'Unknown', confidence: 0.0 }
InitialBestMatch == [disease |-> "Unknown", confidence |-> Zero]

\* symptoms.filter(symptom => data.symptoms.includes(symptom)).length
matchingSymptoms(symptoms, data) ==
    Cardinality({i \in 1..Len(symptoms) : ArrayIncludes(data.symptoms, symptoms[i])})

\* symptoms.filter(symptom => data.symptoms.some(
\*     ds => ds.includes(symptom) || symptom.includes(ds))).length
partialMatches(symptoms, data) ==
    Cardinality({i \in 1..Len(symptoms) :
                    \E k \in 1..Len(data.symptoms) :
                        \/ Includes(data.symptoms[k], symptoms[i])
                        \/ Includes(symptoms[i], data.symptoms[k])})

ExactConfidenceUnweighted(symptoms, data) ==
    Frac(matchingSymptoms(symptoms, data), Len(data.symptoms))

\* (matchingSymptoms / data.symptoms.length) * data.weight
ExactConfidence(symptoms, data) ==
    FMul(Frac(matchingSymptoms(symptoms, data), Len(data.symptoms)), data.weight)

\* (partialMatches / Math.max(symptoms.length, data.symptoms.length))
\*     * data.weight * 0.7
PartialConfidence(symptoms, data) ==
    FMul(FMul(Frac(partialMatches(symptoms, data),
                   MathMax(Len(symptoms), Len(data.symptoms))),
              data.weight),
         PartialFactor)

ClampOmitted(confidence) == confidence

\* Math.min(confidence, 1.0)
Clamp(confidence) == MathMin(confidence, One)

ExactBetterOrEqual(confidence, bestMatch) == FLeq(bestMatch.confidence, confidence)

\* exact pass: if (confidence > bestMatch.confidence)
ExactBetter(confidence, bestMatch) == FLess(bestMatch.confidence, confidence)

PartialAlwaysReplaces(confidence, bestMatch) == TRUE

\* partial pass: if (confidence > bestMatch.confidence)
PartialBetter(confidence, bestMatch) == FLess(bestMatch.confidence, confidence)

PartialPassAlways(bestMatch) == TRUE

\* if (bestMatch.confidence < 0.3)
PartialPassRuns(bestMatch) == FLess(bestMatch.confidence, Threshold)

\* the first loop over Object.entries(this.diseaseSymptoms), from entry i on
RECURSIVE ExactLoop(_, _, _)
ExactLoop(symptoms, i, bestMatch) ==
    IF i > Len(diseaseSymptoms) THEN bestMatch
    ELSE LET data == diseaseSymptoms[i]
             confidence == ExactConfidence(symptoms, data)
         IN IF matchingSymptoms(symptoms, data) > 0 /\ ExactBetter(confidence, bestMatch)
            THEN ExactLoop(symptoms, i + 1,
                           [disease |-> data.disease, confidence |-> Clamp(confidence)])
            ELSE ExactLoop(symptoms, i + 1, bestMatch)

\* the second loop over Object.entries(this.diseaseSymptoms), from entry i on
RECURSIVE PartialLoop(_, _, _)
PartialLoop(symptoms, i, bestMatch) ==
    IF i > Len(diseaseSymptoms) THEN bestMatch
    ELSE LET data == diseaseSymptoms[i]
             confidence == PartialConfidence(symptoms, data)
         IN IF partialMatches(symptoms, data) > 0 /\ PartialBetter(confidence, bestMatch)
            THEN PartialLoop(symptoms, i + 1,
                             [disease |-> data.disease, confidence |-> Clamp(confidence)])
            ELSE PartialLoop(symptoms, i + 1, bestMatch)

\* bestMatch after the exact-match loop
ExactPass(symptoms) == ExactLoop(symptoms, 1, InitialBestMatch)

predictDiseaseNoEmptyCheck(symptoms) ==
    LET bestMatch == ExactPass(symptoms)
    IN IF PartialPassRuns(bestMatch)
       THEN PartialLoop(symptoms, 1, bestMatch)
       ELSE bestMatch

\* DiseasePredictor.predictDisease(symptoms)
predictDisease(symptoms) ==
    IF Len(symptoms) = 0 THEN Healthy
    ELSE LET bestMatch == ExactPass(symptoms)
         IN IF PartialPassRuns(bestMatch)
            THEN PartialLoop(symptoms, 1, bestMatch)
            ELSE bestMatch

-----------------------------------------------------------------------------
(* Page state *)

\* the values offered by the symptom selector
SelectOptions == {"runny_nose", "cough"}

\* contents of the name and phone fields at submission
TextInputs == {"", " ", "Asha"}

\* contents of the admission date field at submission
DateInputs == {"", "2024-01-15"}

\* array objects that can be live at once: one per log entry and the current one
Refs == 1..(MaxLog + 2)

\* the arrays the training log refers to
LoggedRefs(log) == {log[i].symptoms : i \in 1..Len(log)}

\* symptomArray = <a new array>: the variable now refers to an array object that
\* nothing else refers to; arrays no longer referenced are collected
NewArray(contents, hp, log) ==
    LET id == CHOOSE r \in Refs \ LoggedRefs(log) :
                  \A q \in Refs \ LoggedRefs(log) : r <= q
    IN [ref |-> id,
        heap |-> [r \in Refs |-> IF r = id THEN contents
                                 ELSE IF r \in LoggedRefs(log) THEN hp[r]
                                 ELSE <<>>]]

\* the symptom-tag spans updateSymptomList renders, by their textContent; the
\* empty sequence stands for the "No symptoms added yet" paragraph
updateSymptomList(arr) == [i \in 1..Len(arr) |-> ReplaceUnderscores(arr[i])]

\* the training log with every entry's symptom array read through its reference
Entries ==
    [i \in 1..Len(trainingData) |->
        [symptoms |-> heap[trainingData[i].symptoms],
         disease |-> trainingData[i].disease,
         confidence |-> trainingData[i].confidence]]

NoResult == [disease |-> "", confidence |-> Zero]

\* clicked records the tag click handled last: the symptom the tag was rendered
\* for and symptomArray before the click; NoClick after any other event
NoClick == [symptom |-> "", before |-> <<>>]

Init ==
    /\ symptomArray = 1
    /\ heap = [r \in Refs |-> <<>>]
    /\ trainingData = <<>>
    /\ studentId = 1
    /\ listDiv = updateSymptomList(<<>>)
    /\ healthTable = <<>>
    /\ clicked = NoClick
    /\ callInput = <<>>
    /\ callResult = NoResult

\* addSymptom with selectedSymptom the selector's current value
addSymptom(selectedSymptom) ==
    /\ Len(heap[symptomArray]) < MaxSymptoms
    /\ IF selectedSymptom # "" /\ ~ArrayIncludes(heap[symptomArray], selectedSymptom)
       THEN /\ heap' = [heap EXCEPT ![symptomArray] = Append(@, selectedSymptom)]
            /\ listDiv' = updateSymptomList(heap'[symptomArray])
       ELSE UNCHANGED <<heap, listDiv>>
    /\ clicked' = NoClick
    /\ UNCHANGED <<symptomArray, trainingData, studentId, healthTable,
                   callInput, callResult>>

\* the array removeSymptom assigns for a click on the tag with this textContent
removeSymptomFilter(arr, symptom) == FilterNotEqual(arr, symptom)

\* removeSymptom for a click inside the list; target 0 is an element without
\* the class symptom-tag, target i > 0 is the i-th tag
removeSymptom(target) ==
    /\ target \in 0..Len(listDiv)
    /\ IF target > 0
       THEN LET symptom == listDiv[target]
                new == NewArray(removeSymptomFilter(heap[symptomArray], symptom),
                                heap, trainingData)
            IN /\ symptomArray' = new.ref
               /\ heap' = new.heap
               /\ listDiv' = updateSymptomList(new.heap[new.ref])
               /\ clicked' = [symptom |-> heap[symptomArray][target],
                              before |-> heap[symptomArray]]
       ELSE UNCHANGED <<symptomArray, heap, listDiv>> /\ clicked' = NoClick
    /\ UNCHANGED <<trainingData, studentId, healthTable, callInput, callResult>>

\* DiseasePredictor.trainModel(newData)
trainModel(log, newData) == Append(log, newData)

resetFormInPlace(ref, hp, log) == [ref |-> ref, heap |-> [hp EXCEPT ![ref] = <<>>]]

\* resetForm: symptomArray = []
resetForm(ref, hp, log) == NewArray(<<>>, hp, log)

\* the row addToTable appends (the columns that depend on the prediction)
TableRow(id, symptoms, prediction) ==
    [id |-> id,
     symptoms |-> updateSymptomList(symptoms),
     disease |-> prediction.disease,
     confidence |-> prediction.confidence]

\* the two alerts of handleFormSubmit
Rejected(name, phone, admissionDate) ==
    \/ Trim(name) = "" \/ Trim(phone) = "" \/ admissionDate = ""
    \/ Len(heap[symptomArray]) = 0

handleFormSubmit(name, phone, admissionDate) ==
    IF Rejected(name, phone, admissionDate)
    THEN /\ clicked' = NoClick
         /\ UNCHANGED <<symptomArray, heap, trainingData, studentId, listDiv,
                        healthTable, callInput, callResult>>
    ELSE /\ Len(trainingData) < MaxLog
         /\ LET prediction == predictDisease(heap[symptomArray])
                log == trainModel(trainingData,
                                  [symptoms |-> symptomArray,
                                   disease |-> prediction.disease,
                                   confidence |-> prediction.confidence])
                new == resetForm(symptomArray, heap, log)
            IN /\ healthTable' = Append(healthTable,
                                        TableRow(studentId, heap[symptomArray], prediction))
               /\ studentId' = studentId + 1
               /\ trainingData' = log
               /\ symptomArray' = new.ref
               /\ heap' = new.heap
               /\ listDiv' = updateSymptomList(new.heap[new.ref])
         /\ clicked' = NoClick
         /\ UNCHANGED <<callInput, callResult>>

\* inputs of direct calls of diseasePredictor.predictDisease on the page
DirectInputs == {<<>>, <<"runny_nose", "cough">>, <<"zzz_unmatched_token">>}

\* diseasePredictor.predictDisease(input) called on the page
predictDiseaseCall(input) ==
    /\ callInput' = input
    /\ callResult' = predictDisease(input)
    /\ clicked' = NoClick
    /\ UNCHANGED <<symptomArray, heap, trainingData, studentId, listDiv, healthTable>>

Next ==
    \/ \E selectedSymptom \in SelectOptions \cup {""} : addSymptom(selectedSymptom)
    \/ \E target \in 0..MaxSymptoms : removeSymptom(target)
    \/ \E name \in TextInputs, phone \in TextInputs, admissionDate \in DateInputs :
           handleFormSubmit(name, phone, admissionDate)
    \/ \E input \in DirectInputs : predictDiseaseCall(input)

Spec == Init /\ [][Next]_vars

-----------------------------------------------------------------------------
(* predictDisease as a function of its argument *)

\* every symptom token of the catalogue
Vocabulary == UNION {Range(diseaseSymptoms[i].symptoms) : i \in 1..Len(diseaseSymptoms)}

\* tokens outside the catalogue: a substring of a catalogue symptom, a string
\* containing one, and one unrelated to all
OutOfVocabulary == {"head", "high_fever", "zzz"}

Tokens == Vocabulary \cup OutOfVocabulary

SeqsUpTo(S, n) == UNION {[1..k -> S] : k \in 0..n}

\* the symptom lists of the catalogue in every order
ProfileInputs ==
    UNION {{s \in [1..Len(diseaseSymptoms[i].symptoms) -> Range(diseaseSymptoms[i].symptoms)] :
               Range(s) = Range(diseaseSymptoms[i].symptoms)} : i \in 1..Len(diseaseSymptoms)}

\* lists of LongLen tokens: k times one token, then another
LongInputs ==
    {[i \in 1..LongLen |-> IF i <= k THEN t ELSE u] :
        t \in Tokens, u \in Tokens, k \in 0..LongLen}

PredictInputs == SeqsUpTo(Tokens, MaxLen) \cup ProfileInputs \cup LongInputs

InitPredict ==
    /\ symptomArray = 1
    /\ heap = [r \in Refs |-> <<>>]
    /\ trainingData = <<>>
    /\ studentId = 1
    /\ listDiv = updateSymptomList(<<>>)
    /\ healthTable = <<>>
    /\ clicked = NoClick
    /\ callInput \in PredictInputs
    /\ callResult = NoResult

\* the call predictDisease(callInput) returns
predictDiseaseReturn ==
    /\ callResult = NoResult
    /\ callResult' = predictDisease(callInput)
    /\ UNCHANGED <<symptomArray, heap, trainingData, studentId, listDiv, healthTable,
                   clicked, callInput>>

NextPredict == predictDiseaseReturn

SpecPredict == InitPredict /\ [][NextPredict]_vars

-----------------------------------------------------------------------------
(* Statistical classifier and hybrid arbiter, as the specification describes *)
(* them (sections 4.3 and 4.4); script.js contains neither.                  *)

\* fewest training examples from which a model is built
MinTrainingExamples == 1

ModelNotTrained == [disease |-> "ModelNotTrained", confidence |-> Zero]

\* bag-of-symptoms evidence of one training example for an input
ExampleEvidence(example, symptoms) ==
    1 + Cardinality(Range(example.symptoms) \cap Range(symptoms))

RECURSIVE ClassEvidence(_, _, _, _)
ClassEvidence(log, symptoms, label, i) ==
    IF i > Len(log) THEN 0
    ELSE (IF log[i].disease = label THEN ExampleEvidence(log[i], symptoms) ELSE 0)
         + ClassEvidence(log, symptoms, label, i + 1)

\* the positions of the log at which a label occurs for the first time
FirstOccurrences(log) ==
    {i \in 1..Len(log) : \A j \in 1..(i - 1) : log[j].disease # log[i].disease}

RECURSIVE TotalEvidence(_, _, _)
TotalEvidence(log, symptoms, i) ==
    IF i > Len(log) THEN 0
    ELSE ExampleEvidence(log[i], symptoms) + TotalEvidence(log, symptoms, i + 1)

\* predict(symptoms): the class of highest posterior, the first in the log on a
\* tie, with its posterior; ModelNotTrained below the minimum number of examples
StatisticalClassifier(log, symptoms) ==
    IF Len(log) < MinTrainingExamples THEN ModelNotTrained
    ELSE LET ev(i) == ClassEvidence(log, symptoms, log[i].disease, 1)
             top == CHOOSE i \in FirstOccurrences(log) :
                        \A j \in FirstOccurrences(log) :
                            ev(j) < ev(i) \/ (ev(j) = ev(i) /\ i <= j)
         IN [disease |-> log[top].disease,
             confidence |-> Frac(ev(top), TotalEvidence(log, symptoms, 1))]

\* the policy of section 4.4 with predictDisease's scorer as the fallback
HybridArbiter(log, symptoms) ==
    IF Len(symptoms) = 0 THEN Healthy
    ELSE LET learned == StatisticalClassifier(log, symptoms)
         IN IF learned # ModelNotTrained /\ ~FLess(learned.confidence, Threshold)
            THEN learned
            ELSE predictDisease(symptoms)

-----------------------------------------------------------------------------
(* Reference definitions used by the properties *)

Called == callResult # NoResult

DuplicateFree(input) == Cardinality(Range(input)) = Len(input)

Profiles == 1..Len(diseaseSymptoms)

\* profile i has a token in common with the input
HasExactMatch(i, input) == Range(input) \cap Range(diseaseSymptoms[i].symptoms) # {}

\* (matchCount / |profile.symptoms|) * weight for a duplicate-free input
SetScore(i, input) ==
    FMul(Frac(Cardinality(Range(input) \cap Range(diseaseSymptoms[i].symptoms)),
              Len(diseaseSymptoms[i].symptoms)),
         diseaseSymptoms[i].weight)

\* the same score with every position of the input counted
ListScore(i, input) ==
    FMul(Frac(Cardinality({k \in 1..Len(input) :
                              input[k] \in Range(diseaseSymptoms[i].symptoms)}),
              Len(diseaseSymptoms[i].symptoms)),
         diseaseSymptoms[i].weight)

\* the first profile in catalogue order among those of maximal score
FirstMaximal(input) ==
    CHOOSE i \in Profiles :
        /\ HasExactMatch(i, input)
        /\ \A j \in Profiles :
               HasExactMatch(j, input) =>
                   \/ FLess(SetScore(j, input), SetScore(i, input))
                   \/ (SetScore(j, input) = SetScore(i, input) /\ i <= j)

\* the token and the catalogue symptom are substrings of each other in one direction
SubstringRelated(token, v) == Includes(v, token) \/ Includes(token, v)

\* for each token, the catalogue symptoms it is substring-related to
RelatedSymptoms == [t \in Tokens |-> {v \in Vocabulary : SubstringRelated(t, v)}]

\* partialCount / max(|input|, |profile.symptoms|) * weight * 0.7
PartialScore(i, input) ==
    LET profile == diseaseSymptoms[i]
        partialCount == Cardinality({k \in 1..Len(input) :
                           RelatedSymptoms[input[k]] \cap Range(profile.symptoms) # {}})
        longer == IF Len(input) > Len(profile.symptoms) THEN Len(input)
                  ELSE Len(profile.symptoms)
    IN Frac(partialCount * profile.weight.num * 7, longer * profile.weight.den * 10)

-----------------------------------------------------------------------------
(* Properties *)

\* C1: a call of predictDisease with an empty list returns exactly
\* {disease: 'Healthy', confidence: 1.0}, whatever the training log holds
C1_EmptyIsHealthy == (Called /\ callInput = <<>>) => callResult = Healthy

C1_Witness == Called /\ callInput = <<>> /\ callResult = Healthy /\ Len(trainingData) = MaxLog

\* C2: a call of predictDisease returns what the hybrid policy returns for the
\* training log at the time of the call: the classifier's result when it is
\* trained and at least 0.3 confident, the rule-based result otherwise
C2_ClassifierFirst ==
    [][\A input \in DirectInputs :
           predictDiseaseCall(input) => callResult' = HybridArbiter(Entries, input)]_vars

\* C3: on a non-empty duplicate-free input the exact-match pass keeps the first
\* profile of maximal (matchCount / |profile.symptoms|) * weight among those
\* with a match, and predictDisease returns it when that score is >= 0.3
C3_ExactMatchMaximum ==
    (Called /\ callInput # <<>> /\ DuplicateFree(callInput)) =>
        IF \E i \in Profiles : HasExactMatch(i, callInput)
        THEN LET i == FirstMaximal(callInput)
                 best == [disease |-> diseaseSymptoms[i].disease,
                          confidence |-> MathMin(One, SetScore(i, callInput))]
             IN /\ ExactPass(callInput) = best
                /\ FLeq(Threshold, SetScore(i, callInput)) => callResult = best
        ELSE ExactPass(callInput) = [disease |-> "Unknown", confidence |-> Zero]

C3_Witness ==
    /\ callInput = <<"runny_nose", "cough">>
    /\ callResult = [disease |-> "Common Cold", confidence |-> Frac(2, 5)]

\* C4: a symptom list that is exactly the symptom set of a profile d returns d
\* with confidence min(1.0, d.weight)
C4_FullProfile ==
    Called =>
        \A i \in Profiles :
            (/\ Len(callInput) = Len(diseaseSymptoms[i].symptoms)
             /\ Range(callInput) = Range(diseaseSymptoms[i].symptoms)) =>
                callResult = [disease |-> diseaseSymptoms[i].disease,
                              confidence |-> MathMin(One, diseaseSymptoms[i].weight)]

C4_Witness ==
    /\ callInput = <<"dizziness", "headache", "nausea">>
    /\ callResult = [disease |-> "Migraine", confidence |-> Frac(3, 4)]

\* C5: a non-empty input none of whose tokens equals, is a substring of, or
\* contains a catalogue symptom returns exactly {disease: 'Unknown', confidence: 0.0}
C5_NoOverlapIsUnknown ==
    (/\ Called
     /\ callInput # <<>>
     /\ \A k \in 1..Len(callInput) :
            callInput[k] \notin Vocabulary /\ RelatedSymptoms[callInput[k]] = {}) =>
        callResult = [disease |-> "Unknown", confidence |-> Zero]

C5_Witness ==
    /\ callInput = <<"zzz", "zzz">>
    /\ callResult = [disease |-> "Unknown", confidence |-> Zero]

\* C6: the confidence predictDisease returns lies in [0.0, 1.0], also for
\* repeated tokens, tokens outside the catalogue and lists longer than any profile
C6_ConfidenceInRange ==
    Called => FLeq(Zero, callResult.confidence) /\ FLeq(callResult.confidence, One)

C6_Witness ==
    /\ Called
    /\ Len(callInput) > 5
    /\ \E i \in Profiles : FLess(One, ListScore(i, callInput))
    /\ callResult.confidence = One

\* C7: the partial-match pass only raises the result: the returned confidence is
\* at least the exact-match best, an exact-match best >= 0.3 is returned as it
\* is, and a different result is a profile whose partial score is strictly greater
C7_PartialOnlyRaises ==
    (Called /\ callInput # <<>>) =>
        \A exact \in {ExactPass(callInput)} :
        \A score \in {[i \in Profiles |-> PartialScore(i, callInput)]} :
            /\ FLeq(exact.confidence, callResult.confidence)
            /\ FLeq(Threshold, exact.confidence) => callResult = exact
            /\ callResult # exact =>
                   \E i \in Profiles :
                       /\ FLess(exact.confidence, score[i])
                       /\ callResult = [disease |-> diseaseSymptoms[i].disease,
                                        confidence |-> score[i]]
            /\ (\A i \in Profiles : ~FLess(exact.confidence, score[i])) =>
                   callResult = exact

C7_Witness ==
    /\ callInput = <<"vomiting", "head">>
    /\ ExactPass(callInput) = [disease |-> "Stomach Flu", confidence |-> Frac(17, 100)]
    /\ callResult = [disease |-> "Migraine", confidence |-> Frac(7, 40)]

\* C8: the training log is append-only: a step either leaves every entry
\* (its symptom list included) as it was, or is an accepted submission that
\* appends one entry holding the submitted symptom list and its prediction
C8_AppendOnly ==
    [][\/ Entries' = Entries
       \/ /\ \E name \in TextInputs, phone \in TextInputs, admissionDate \in DateInputs :
                 /\ ~Rejected(name, phone, admissionDate)
                 /\ handleFormSubmit(name, phone, admissionDate)
          /\ Len(Entries') = Len(Entries) + 1
          /\ SubSeq(Entries', 1, Len(Entries)) = Entries
          /\ Entries'[Len(Entries')] =
                 [symptoms |-> heap[symptomArray],
                  disease |-> predictDisease(heap[symptomArray]).disease,
                  confidence |-> predictDisease(heap[symptomArray]).confidence]]_vars

C8_Witness ==
    /\ Len(trainingData) = 2
    /\ Entries[1].symptoms = <<"runny_nose", "cough">>
    /\ Entries[2].symptoms = <<"cough">>
    /\ heap[symptomArray] = <<"cough", "runny_nose">>

\* C9: a click on the tag rendered for the symptom at position target leaves
\* symptomArray without that symptom and with the others in their order
C9_ClickToRemove ==
    clicked # NoClick =>
        /\ ~ArrayIncludes(heap[symptomArray], clicked.symptom)
        /\ heap[symptomArray] = FilterNotEqual(clicked.before, clicked.symptom)

\* C10 as stated: when some profile has an exact token match with the input,
\* the returned label is a profile with an exact token match
C10_ExactNeverOutranked ==
    (/\ Called
     /\ callInput # <<>>
     /\ \E i \in Profiles : HasExactMatch(i, callInput)) =>
        \E i \in Profiles :
            diseaseSymptoms[i].disease = callResult.disease /\ HasExactMatch(i, callInput)

\* C10 amended: when some profile's exact-match score is >= 0.3, the returned
\* label is a profile with an exact token match
C10_GoodExactNeverOutranked ==
    (/\ Called
     /\ callInput # <<>>
     /\ \E i \in Profiles :
            HasExactMatch(i, callInput) /\ FLeq(Threshold, ListScore(i, callInput))) =>
        \E i \in Profiles :
            diseaseSymptoms[i].disease = callResult.disease /\ HasExactMatch(i, callInput)

C10_Witness ==
    /\ callInput = <<"runny_nose", "cough", "head">>
    /\ callResult = [disease |-> "Common Cold", confidence |-> Frac(2, 5)]

====
